---- MODULE Spec2Model ----
(***************************************************************************)
(* Model of dashboard.py: a Streamlit script that is re-run from top to    *)
(* bottom on every user interaction.  Each run calls the memoized          *)
(* load_data(), stops when the CSV is missing, and otherwise dispatches on *)
(* the sidebar menu to one of five views.                                  *)
(*                                                                         *)
(* Text is modelled as a sequence of one-character strings, a table cell   *)
(* as a record [t, s, n] (t = "str", "num", "nan", "date" or "nat"), a     *)
(* table as [columns, rows], and a mean as the pair [sum, count] of the    *)
(* values it averages.                                                     *)
(***************************************************************************)
EXTENDS Integers, Sequences, FiniteSets, TLC

VARIABLES
    file,      \* content of 'book_data.csv' on disk, or Absent
    cache,     \* the st.cache_data entry of load_data: NoEntry, or the stored value
    df,        \* the module-level df of the latest run
    menu,      \* the sidebar selection of the latest run
    status,    \* how the latest run ended: "ok", "stopped" (st.stop) or "raised"
    shown,     \* the elements the latest run rendered
    out,       \* the data the latest view computed
    reads,     \* number of pd.read_csv calls made by the process
    loaded,    \* the calls of load_data that returned: how many, the first value, the latest
    font       \* whether the font file named at line 281 exists on the host

vars == <<file, cache, df, menu, status, shown, out, reads, loaded, font>>

----------------------------------------------------------------------------
(* Bounds *)

MaxReads == 2      \* runs that would read the file a third time are not explored
MaxCalls == 2      \* the count of load_data calls saturates here

----------------------------------------------------------------------------
(* Cells and text *)

\* The three Hangul characters the code names, written in ASCII: the currency
\* suffix (U+C6D0), the year sign (U+B144) and the month sign (U+C6D4).
WON == "W"
YEAR == "Y"
MONTH == "M"

Digits == {"0", "1", "2", "3", "4", "5", "6", "7", "8", "9"}

DigitVal(c) ==
    CASE c = "0" -> 0 [] c = "1" -> 1 [] c = "2" -> 2 [] c = "3" -> 3
      [] c = "4" -> 4 [] c = "5" -> 5 [] c = "6" -> 6 [] c = "7" -> 7
      [] c = "8" -> 8 [] c = "9" -> 9

DigitChar(d) ==
    CASE d = 0 -> "0" [] d = 1 -> "1" [] d = 2 -> "2" [] d = 3 -> "3"
      [] d = 4 -> "4" [] d = 5 -> "5" [] d = 6 -> "6" [] d = 7 -> "7"
      [] d = 8 -> "8" [] d = 9 -> "9"

NaN == [t |-> "nan", s |-> <<>>, n |-> 0]
NaT == [t |-> "nat", s |-> <<>>, n |-> 0]
Str(s) == [t |-> "str", s |-> s, n |-> 0]
Num(n) == [t |-> "num", s |-> <<>>, n |-> n]
Date(y, m, d) == [t |-> "date", s |-> <<>>, n |-> y * 10000 + m * 100 + d]

YearOf(c) == c.n \div 10000
MonthOf(c) == (c.n \div 100) % 100

AllDigits(s) == \A i \in 1..Len(s) : s[i] \in Digits

RECURSIVE DigitsValue(_)
DigitsValue(s) ==
    IF s = <<>> THEN 0
    ELSE 10 * DigitsValue(SubSeq(s, 1, Len(s) - 1)) + DigitVal(s[Len(s)])

\* a sequence given as a function on 1..n, as the tuple of its elements
AsSeq(f) == f \o <<>>

\* str.replace(old, '') for a one-character old
RECURSIVE Remove(_, _)
Remove(s, c) ==
    IF s = <<>> THEN <<>>
    ELSE IF Head(s) = c THEN Remove(Tail(s), c)
    ELSE <<Head(s)>> \o Remove(Tail(s), c)

\* int(text): defined on a non-empty run of digits, ValueError otherwise
IntParses(s) == s # <<>> /\ AllDigits(s)

\* zero-padded decimal rendering of n on w places
RECURSIVE Pad(_, _)
Pad(n, w) ==
    IF w = 0 THEN <<>> ELSE Pad(n \div 10, w - 1) \o <<DigitChar(n % 10)>>

----------------------------------------------------------------------------
(* The CSV file and pd.read_csv *)

RawColumns == {"Title", "Subtitle", "Author", "Publisher", "Price", "Rating",
               "Review Count", "Sales Index", "Publishing Date"}

Absent == [exists |-> FALSE, rows |-> <<>>]
Csv(rows) == [exists |-> TRUE, rows |-> rows]

\* os.path.exists(file_path)
path_exists(f) == f.exists

\* The texts of one column of the file, top to bottom.
ColumnText(rows, col) ==
    AsSeq([i \in 1..Len(rows) |->
        CASE col = "Title" -> rows[i].Title
          [] col = "Subtitle" -> rows[i].Subtitle
          [] col = "Author" -> rows[i].Author
          [] col = "Publisher" -> rows[i].Publisher
          [] col = "Price" -> rows[i].Price
          [] col = "Rating" -> rows[i].Rating
          [] col = "Review Count" -> rows[i].ReviewCount
          [] col = "Sales Index" -> rows[i].SalesIndex
          [] col = "Publishing Date" -> rows[i].PublishingDate])

\* pd.read_csv infers one type per column: a column whose non-empty cells are
\* all digit runs is numeric, any other column holds text; an empty cell is NaN.
NumericColumn(texts) ==
    \A i \in 1..Len(texts) : texts[i] # <<>> => AllDigits(texts[i])

ReadCell(text, numeric) ==
    IF text = <<>> THEN NaN
    ELSE IF numeric THEN Num(DigitsValue(text))
    ELSE Str(text)

read_csv(f) ==
    LET numeric == [col \in RawColumns |-> NumericColumn(ColumnText(f.rows, col))]
    IN AsSeq([i \in 1..Len(f.rows) |->
        [Title |-> ReadCell(f.rows[i].Title, numeric["Title"]),
         Subtitle |-> ReadCell(f.rows[i].Subtitle, numeric["Subtitle"]),
         Author |-> ReadCell(f.rows[i].Author, numeric["Author"]),
         Publisher |-> ReadCell(f.rows[i].Publisher, numeric["Publisher"]),
         Price |-> ReadCell(f.rows[i].Price, numeric["Price"]),
         Rating |-> ReadCell(f.rows[i].Rating, numeric["Rating"]),
         ReviewCount |-> ReadCell(f.rows[i].ReviewCount, numeric["Review Count"]),
         SalesIndex |-> ReadCell(f.rows[i].SalesIndex, numeric["Sales Index"]),
         PublishingDate |-> ReadCell(f.rows[i].PublishingDate, numeric["Publishing Date"])]])

----------------------------------------------------------------------------
(* load_data: the field normalisers *)

PriceText(price) == Remove(Remove(price.s, ","), WON)

\* int(...) raises ValueError on anything but a run of digits
clean_price_raises(price) == price.t = "str" /\ ~IntParses(PriceText(price))

clean_price(price) ==
    IF price.t = "str" THEN Num(DigitsValue(PriceText(price))) ELSE price

\* pd.to_numeric(column, errors='coerce'), cell by cell
to_numeric(c) ==
    IF c.t = "num" THEN c
    ELSE IF c.t = "str" /\ IntParses(c.s) THEN Num(DigitsValue(c.s))
    ELSE NaN

\* .fillna(0)
fillna0(c) == IF c.t = "nan" THEN Num(0) ELSE c

\* line 35 without .fillna(0)
sales_index_nofill(c) == to_numeric(c)

\* the Sales Index column of line 35
sales_index(c) == fillna0(to_numeric(c))

IsLeap(y) == (y % 4 = 0 /\ y % 100 # 0) \/ y % 400 = 0

DaysIn(y, m) ==
    IF m = 2 THEN (IF IsLeap(y) THEN 29 ELSE 28)
    ELSE IF m \in {4, 6, 9, 11} THEN 30 ELSE 31

\* pd.to_datetime(text, format=<%Y YEAR blank %m MONTH>): four digits, the year
\* sign, a blank, a month of one or two digits, the month sign
StrictMatches(s) ==
    /\ Len(s) \in {8, 9}
    /\ AllDigits(SubSeq(s, 1, 4))
    /\ s[5] = YEAR /\ s[6] = " " /\ s[Len(s)] = MONTH
    /\ AllDigits(SubSeq(s, 7, Len(s) - 1))
    /\ DigitsValue(SubSeq(s, 7, Len(s) - 1)) \in 1..12

StrictDate(s) ==
    Date(DigitsValue(SubSeq(s, 1, 4)), DigitsValue(SubSeq(s, 7, Len(s) - 1)), 1)

\* pd.to_datetime(text, errors='coerce'), on the texts of the model: an ISO
\* 'YYYY-MM-DD' date is recognised, every other text gives NaT
LenientMatches(s) ==
    /\ Len(s) = 10
    /\ AllDigits(SubSeq(s, 1, 4)) /\ s[5] = "-"
    /\ AllDigits(SubSeq(s, 6, 7)) /\ s[8] = "-"
    /\ AllDigits(SubSeq(s, 9, 10))
    /\ DigitsValue(SubSeq(s, 6, 7)) \in 1..12
    /\ DigitsValue(SubSeq(s, 9, 10)) \in
          1..DaysIn(DigitsValue(SubSeq(s, 1, 4)), DigitsValue(SubSeq(s, 6, 7)))

LenientDate(s) ==
    Date(DigitsValue(SubSeq(s, 1, 4)), DigitsValue(SubSeq(s, 6, 7)),
         DigitsValue(SubSeq(s, 9, 10)))

parse_date(c) ==
    IF c.t # "str" THEN NaT
    ELSE IF StrictMatches(c.s) THEN StrictDate(c.s)
    ELSE IF LenientMatches(c.s) THEN LenientDate(c.s)
    ELSE NaT

\* .dt.to_period('M').astype(str): 'YYYY-MM', and the text 'NaT' for a
\* missing date
year_month(d) ==
    IF d.t = "date" THEN Str(Pad(YearOf(d), 4) \o <<"-">> \o Pad(MonthOf(d), 2))
    ELSE Str(<<"N", "a", "T">>)

----------------------------------------------------------------------------
(* load_data: the table *)

PreparedColumns == RawColumns \cup {"YearMonth"}

None == [isNone |-> TRUE, columns |-> {}, rows |-> <<>>]
Table(columns, rows) == [isNone |-> FALSE, columns |-> columns, rows |-> rows]

prepare_row(r) ==
    [Title |-> r.Title,
     Subtitle |-> r.Subtitle,
     Author |-> r.Author,
     Publisher |-> r.Publisher,
     Price |-> clean_price(r.Price),
     Rating |-> to_numeric(r.Rating),
     ReviewCount |-> to_numeric(r.ReviewCount),
     SalesIndex |-> sales_index(r.SalesIndex),
     PublishingDate |-> parse_date(r.PublishingDate),
     YearMonth |-> year_month(parse_date(r.PublishingDate)),
     PriceRange |-> NaN]

\* the body of load_data raises when clean_price does, on any row
load_data_raises(f) ==
    /\ path_exists(f)
    /\ LET raw == read_csv(f)
       IN \E i \in 1..Len(raw) : clean_price_raises(raw[i].Price)

\* the value the body of load_data returns when it does not raise
load_data(f) ==
    IF ~path_exists(f) THEN None
    ELSE LET raw == read_csv(f)
         IN Table(PreparedColumns, AsSeq([i \in 1..Len(raw) |-> prepare_row(raw[i])]))

----------------------------------------------------------------------------
(* pandas helpers used by the views *)

\* code point of a character of the model's alphabet
CharCode(c) ==
    CASE c \in Digits -> 48 + DigitVal(c)
      [] c = " " -> 32 [] c = "(" -> 40 [] c = "," -> 44 [] c = "-" -> 45
      [] c = "." -> 46
      [] c = "A" -> 65 [] c = "B" -> 66 [] c = "N" -> 78 [] c = "T" -> 84
      [] c = "a" -> 97 [] c = "b" -> 98 [] c = "k" -> 107 [] c = "p" -> 112
      [] c = "q" -> 113 [] c = "x" -> 120
      [] c = YEAR -> 45380 [] c = WON -> 50896 [] c = MONTH -> 50900

\* text comparison, as Python compares str
RECURSIVE TextLess(_, _)
TextLess(a, b) ==
    IF b = <<>> THEN FALSE
    ELSE IF a = <<>> THEN TRUE
    ELSE IF Head(a) = Head(b) THEN TextLess(Tail(a), Tail(b))
    ELSE CharCode(Head(a)) < CharCode(Head(b))

\* ordering of group keys (numbers by value, text as str)
KeyLess(a, b) ==
    IF a.t = "num" /\ b.t = "num" THEN a.n < b.n
    ELSE IF a.t = "str" /\ b.t = "str" THEN TextLess(a.s, b.s)
    ELSE a.t = "num"

\* the elements of a finite set of keys in increasing order
RECURSIVE SortedKeys(_)
SortedKeys(K) ==
    IF K = {} THEN <<>>
    ELSE LET m == CHOOSE k \in K : \A o \in K \ {k} : KeyLess(k, o)
         IN <<m>> \o SortedKeys(K \ {m})

\* the rows of a sequence at the positions that satisfy a mask, in order
RECURSIVE Masked(_, _)
Masked(rows, mask) ==
    IF rows = <<>> THEN <<>>
    ELSE Masked(SubSeq(rows, 1, Len(rows) - 1), mask)
         \o (IF mask[Len(rows)] THEN <<rows[Len(rows)]>> ELSE <<>>)

YearMonthKeys(rows) ==
    {rows[i].YearMonth : i \in {j \in 1..Len(rows) : rows[j].YearMonth.t # "nan"}}

\* rows.groupby('YearMonth').size().reset_index(name='Count'): one entry per
\* non-missing key, in key order
groupby_yearmonth_size(rows) ==
    LET keys == SortedKeys(YearMonthKeys(rows))
    IN AsSeq([k \in 1..Len(keys) |->
          [YearMonth |-> keys[k],
           Count |-> Cardinality({i \in 1..Len(rows) : rows[i].YearMonth = keys[k]})]])

\* Series.mean() / Series.sum(): missing cells are skipped
RECURSIVE SumCells(_)
SumCells(cells) ==
    IF cells = <<>> THEN 0
    ELSE SumCells(Tail(cells)) + (IF Head(cells).t = "num" THEN Head(cells).n ELSE 0)

CountCells(cells) == Cardinality({i \in 1..Len(cells) : cells[i].t = "num"})

mean(cells) == [sum |-> SumCells(cells), count |-> CountCells(cells)]

SalesIndexOf(rows) == AsSeq([i \in 1..Len(rows) |-> rows[i].SalesIndex])
RatingOf(rows) == AsSeq([i \in 1..Len(rows) |-> rows[i].Rating])
PriceOf(rows) == AsSeq([i \in 1..Len(rows) |-> rows[i].Price])
ReviewCountOf(rows) == AsSeq([i \in 1..Len(rows) |-> rows[i].ReviewCount])

\* a over b compared as fractions; a mean of no value is NaN and compares false
MeanGreater(a, b) ==
    a.count > 0 /\ b.count > 0 /\ a.sum * b.count > b.sum * a.count

\* keep='last': among equal values the later row comes first
RECURSIVE InsertDesc_last(_, _)
InsertDesc_last(x, sorted) ==
    IF sorted = <<>> THEN <<x>>
    ELSE IF Head(sorted).SalesIndex.n > x.SalesIndex.n
         THEN <<Head(sorted)>> \o InsertDesc_last(x, Tail(sorted))
         ELSE <<x>> \o sorted

\* DataFrame.nlargest(n, 'Sales Index'), keep='first': the rows holding a
\* value, by decreasing value, rows of equal value in table order; rows
\* without a value follow; the first n are returned.
RECURSIVE InsertDesc(_, _)
InsertDesc(x, sorted) ==
    IF sorted = <<>> THEN <<x>>
    ELSE IF Head(sorted).SalesIndex.n >= x.SalesIndex.n
         THEN <<Head(sorted)>> \o InsertDesc(x, Tail(sorted))
         ELSE <<x>> \o sorted

RECURSIVE SortDesc(_)
SortDesc(rows) ==
    IF rows = <<>> THEN <<>>
    ELSE InsertDesc(rows[Len(rows)], SortDesc(SubSeq(rows, 1, Len(rows) - 1)))

Head_n(rows, n) == SubSeq(rows, 1, IF Len(rows) < n THEN Len(rows) ELSE n)

nlargest(n, rows) ==
    LET valued == Masked(rows, [i \in 1..Len(rows) |-> rows[i].SalesIndex.t = "num"])
        missing == Masked(rows, [i \in 1..Len(rows) |-> rows[i].SalesIndex.t # "num"])
    IN Head_n(SortDesc(valued) \o missing, n)

----------------------------------------------------------------------------
(* Publishers *)

\* df['Publisher'].unique(): the distinct cells, the missing one included
publisher_list(rows) == {rows[i].Publisher : i \in 1..Len(rows)}

\* sorted(publisher_list) compares str with float (TypeError) when the list
\* mixes names and a missing cell
sorted_raises(rows) ==
    \E a, b \in publisher_list(rows) : a.t = "str" /\ b.t # "str"

\* df[df['Publisher'] == selected]: a missing cell equals nothing
publisher_rows(rows, selected) ==
    Masked(rows, [i \in 1..Len(rows) |->
                    selected.t # "nan" /\ rows[i].Publisher = selected])

PublisherCount(rows, p) == Cardinality({i \in 1..Len(rows) : rows[i].Publisher = p})

FirstRowOf(rows, p) ==
    CHOOSE i \in 1..Len(rows) :
        rows[i].Publisher = p /\ \A j \in 1..(i - 1) : rows[j].Publisher # p

TopPublishers == 10

\* df['Publisher'].value_counts().nlargest(10).index: the ten most frequent
\* names, the earlier name first among equally frequent ones
top_pubs(rows) ==
    LET names == {p \in publisher_list(rows) : p.t # "nan"}
        Ahead(q, p) ==
            \/ PublisherCount(rows, q) > PublisherCount(rows, p)
            \/ /\ PublisherCount(rows, q) = PublisherCount(rows, p)
               /\ FirstRowOf(rows, q) < FirstRowOf(rows, p)
    IN {p \in names : Cardinality({q \in names : Ahead(q, p)}) < TopPublishers}

RECURSIVE InsertByMean(_, _)
InsertByMean(x, sorted) ==
    IF sorted = <<>> THEN <<x>>
    ELSE IF MeanGreater(x.SalesIndex, Head(sorted).SalesIndex)
         THEN <<x>> \o sorted
         ELSE <<Head(sorted)>> \o InsertByMean(x, Tail(sorted))

RECURSIVE SortByMean(_)
SortByMean(groups) ==
    IF groups = <<>> THEN <<>>
    ELSE InsertByMean(groups[Len(groups)],
                      SortByMean(SubSeq(groups, 1, Len(groups) - 1)))

\* filtered_df.groupby('Publisher')['Sales Index'].mean()
\*     .sort_values(ascending=False).reset_index()
avg_sales(rows) ==
    LET keys == SortedKeys(top_pubs(rows))
    IN SortByMean(AsSeq([k \in 1..Len(keys) |->
          [Publisher |-> keys[k],
           SalesIndex |-> mean(SalesIndexOf(publisher_rows(rows, keys[k])))]]))

----------------------------------------------------------------------------
(* Price ranges *)

PriceBins == <<0, 15000, 25000, 35000, 50000, 100000>>
PriceLabels == <<"~1.5", "1.5~2.5", "2.5~3.5", "3.5~5.0", "5.0+">>

\* pd.cut(price, bins, labels): the label of the interval (low, high] that
\* holds the price, missing for a price outside all of them
cut(price) ==
    IF price.t = "num"
       /\ \E k \in 1..Len(PriceLabels) : PriceBins[k] < price.n /\ price.n <= PriceBins[k + 1]
    THEN Str(<<PriceLabels[CHOOSE k \in 1..Len(PriceLabels) :
                  PriceBins[k] < price.n /\ price.n <= PriceBins[k + 1]]>>)
    ELSE NaN

\* df['Price Range'] = pd.cut(df['Price'], ...)
assign_price_range(table) ==
    Table(table.columns \cup {"Price Range"},
          AsSeq([i \in 1..Len(table.rows) |->
              [table.rows[i] EXCEPT !.PriceRange = cut(table.rows[i].Price)]]))

\* df.groupby('Price Range')['Sales Index'].mean().reset_index(): one entry
\* per label
price_sales(rows) ==
    AsSeq([k \in 1..Len(PriceLabels) |->
        [PriceRange |-> PriceLabels[k],
         SalesIndex |-> mean(SalesIndexOf(
             Masked(rows, [i \in 1..Len(rows) |->
                             rows[i].PriceRange = Str(<<PriceLabels[k]>>)])))]])

----------------------------------------------------------------------------
(* Keyword search *)

Lower(c) == IF c = "A" THEN "a" ELSE IF c = "B" THEN "b" ELSE c

\* str.contains(keyword, case=False) takes the keyword as a regular
\* expression.  On keywords over letters, '.' and '(' : a letter matches itself
\* in either case, '.' matches any character, and an unclosed '(' is an
\* re.error.
regex_raises(keyword) == \E i \in 1..Len(keyword) : keyword[i] = "("

PatternCharMatches(p, c) == p = "." \/ Lower(p) = Lower(c)

regex_search(text, keyword) ==
    \E i \in 1..(Len(text) - Len(keyword) + 1) :
        \A j \in 1..Len(keyword) : PatternCharMatches(keyword[j], text[i + j - 1])

\* .fillna('')
fillna_empty(c) == IF c.t = "nan" THEN Str(<<>>) ELSE c

\* a missing Title gives a missing mask entry, which | takes as False
str_contains(c, keyword) == c.t = "str" /\ regex_search(c.s, keyword)

keyword_filter(rows, keyword) ==
    IF keyword # <<>>
    THEN Masked(rows, [i \in 1..Len(rows) |->
                  \/ str_contains(rows[i].Title, keyword)
                  \/ str_contains(fillna_empty(rows[i].Subtitle), keyword)])
    ELSE rows

\* [ga-hih a-zA-Z0-9], on the model's alphabet
IsWordChar(c) ==
    c \in Digits \cup {"A", "B", "N", "T", "a", "b", "k", "p", "q", "x", WON, YEAR, MONTH}

\* re.findall(r'[...]+', text): the maximal runs of word characters
RECURSIVE Tokens(_, _)
Tokens(text, run) ==
    IF text = <<>> THEN (IF run = <<>> THEN {} ELSE {run})
    ELSE IF IsWordChar(Head(text)) THEN Tokens(Tail(text), run \o <<Head(text)>>)
    ELSE (IF run = <<>> THEN {} ELSE {run}) \cup Tokens(Tail(text), <<>>)

\* the stop word that can be written in ASCII; the Hangul ones are made of
\* characters outside the model's alphabet
stopwords == {<<"G", "u", "i", "d", "e">>}

\* Title.fillna('') + ' ' + Subtitle.fillna('') of one row
RowText(r) == fillna_empty(r.Title).s \o <<" ">> \o fillna_empty(r.Subtitle).s

\* the words kept for the word cloud (tokens of one row never join those of
\* the next: ' '.join separates them)
words(rows) ==
    {w \in UNION {Tokens(RowText(rows[i]), <<>>) : i \in 1..Len(rows)} :
        w \notin stopwords /\ Len(w) > 1}

----------------------------------------------------------------------------
(* One run of the script: load_data behind st.cache_data *)

NoEntry == [hit |-> FALSE, value |-> None]
Entry(v) == [hit |-> TRUE, value |-> v]

\* df = load_data() at line 49.  A hit returns the stored value without
\* running the body; a miss runs the body and stores what it returns; a body
\* that raises stores nothing.
LoadCall ==
    IF cache.hit
    THEN [raised |-> FALSE, value |-> cache.value, cache |-> cache, reads |-> reads]
    ELSE IF ~path_exists(file)
    THEN [raised |-> FALSE, value |-> None, cache |-> Entry(None), reads |-> reads]
    ELSE IF load_data_raises(file)
    THEN [raised |-> TRUE, value |-> None, cache |-> cache, reads |-> reads + 1]
    ELSE [raised |-> FALSE, value |-> load_data(file),
          cache |-> Entry(load_data(file)), reads |-> reads + 1]

\* st.cache_resource instead of st.cache_data: the entry is the very object
\* the caller received
cache_shared(entry, received) == received

\* st.cache_data keeps a serialized copy and hands out a fresh object on every
\* call: what the caller later does to the object it received does not reach
\* the entry.
cache_after_run(entry, received) == entry

Menus == {"Home", "Sales", "Publisher", "Price", "Search"}

TopSales == 20
TopSearch == 5
Preview == 20

EmptyOut ==
    [keyword |-> <<>>, selected_publisher |-> NaN, total |-> 0,
     price_mean |-> mean(<<>>), rating_mean |-> mean(<<>>),
     sales_mean |-> mean(<<>>), review_sum |-> 0,
     monthly_counts |-> <<>>, preview |-> <<>>, top_sales |-> <<>>,
     avg_sales |-> <<>>, pub_df |-> <<>>, pub_trend |-> <<>>,
     price_sales |-> <<>>, filtered_df |-> <<>>, top_search |-> <<>>]

Result(table, st, elements, data) ==
    [df |-> table, status |-> st, shown |-> elements, out |-> data]

\* lines 61-72: the sidebar, then the file-missing message and st.stop()
Stopped == Result(None, "stopped", {"sidebar", "error.file_missing"}, EmptyOut)

\* load_data raised at line 49: nothing after it runs
LoadRaised == Result(None, "raised", {"exception"}, EmptyOut)

\* lines 75-111
HomeView(t) ==
    Result(t, "ok",
        {"sidebar", "home.metrics", "home.overview", "home.trend.chart",
         "home.trend.table", "home.preview.table"},
        [EmptyOut EXCEPT
            !.total = Len(t.rows),
            !.price_mean = mean(PriceOf(t.rows)),
            !.rating_mean = mean(RatingOf(t.rows)),
            !.review_sum = SumCells(ReviewCountOf(t.rows)),
            !.monthly_counts = groupby_yearmonth_size(t.rows),
            !.preview = Head_n(t.rows, Preview)])

\* lines 114-155
SalesView(t) ==
    Result(t, "ok",
        {"sidebar", "sales.top.chart", "sales.top.table", "sales.scatter.chart",
         "sales.crosstab.table", "sales.publisher.chart", "sales.publisher.table"},
        [EmptyOut EXCEPT
            !.top_sales = nlargest(TopSales, t.rows),
            !.avg_sales = avg_sales(t.rows)])

\* lines 158-205.  A selection that keeps no row (possible only when no row
\* names a publisher) still gets its metrics, its price histogram and table and
\* its rating histogram; value_counts(bins=5) then refuses the empty column
\* (ValueError) and the run ends there.
PublisherView(t, selected) ==
    IF sorted_raises(t.rows)
    THEN Result(t, "raised", {"sidebar", "exception"}, EmptyOut)
    ELSE LET pub_df == publisher_rows(t.rows, selected)
             pub_trend == groupby_yearmonth_size(pub_df)
             data == [EmptyOut EXCEPT
                        !.selected_publisher = selected,
                        !.pub_df = pub_df,
                        !.total = Len(pub_df),
                        !.sales_mean = mean(SalesIndexOf(pub_df)),
                        !.rating_mean = mean(RatingOf(pub_df))]
         IN IF pub_df = <<>>
            THEN Result(t, "raised",
                    {"sidebar", "publisher.metrics", "publisher.price.chart",
                     "publisher.price.table", "publisher.rating.chart", "exception"},
                    data)
            ELSE Result(t, "ok",
                    {"sidebar", "publisher.metrics", "publisher.price.chart",
                     "publisher.price.table", "publisher.rating.chart",
                     "publisher.rating.table"}
                    \cup (IF pub_trend # <<>>
                          THEN {"publisher.trend.chart", "publisher.trend.table"}
                          ELSE {"publisher.trend.warning"}),
                    [data EXCEPT !.pub_trend = pub_trend])

\* lines 208-247
PriceView(t) ==
    Result(assign_price_range(t), "ok",
        {"sidebar", "price.box.chart", "price.pivot.table", "price.corr.chart",
         "price.corr.table", "price.range.chart", "price.range.table"},
        [EmptyOut EXCEPT !.price_sales = price_sales(assign_price_range(t).rows)])

\* lines 250-306
SearchView(t, keyword) ==
    IF keyword # <<>> /\ regex_raises(keyword)
    THEN Result(t, "raised", {"sidebar", "exception"},
                [EmptyOut EXCEPT !.keyword = keyword])
    ELSE LET filtered_df == keyword_filter(t.rows, keyword)
             data == [EmptyOut EXCEPT !.keyword = keyword, !.filtered_df = filtered_df]
         IN IF filtered_df # <<>> /\ words(filtered_df) # {} /\ ~font
            THEN \* WordCloud(font_path=...) raises OSError in the first tab
                 Result(t, "raised", {"sidebar", "search.info", "exception"}, data)
            ELSE Result(t, "ok",
                    {"sidebar", "search.info", "search.list.table"}
                    \cup (IF filtered_df = <<>> THEN {"search.warning.no_results"}
                          ELSE IF words(filtered_df) = {} THEN {"search.warning.no_text"}
                          ELSE {"search.wordcloud.chart"})
                    \cup (IF filtered_df # <<>>
                          THEN {"search.stats.table", "search.top.chart"}
                          ELSE {}),
                    [data EXCEPT !.top_search =
                        IF filtered_df # <<>> THEN nlargest(TopSearch, filtered_df)
                        ELSE <<>>])

\* the view the menu selects
View(m, t, selected, keyword) ==
    CASE m = "Home" -> HomeView(t)
      [] m = "Sales" -> SalesView(t)
      [] m = "Publisher" -> PublisherView(t, selected)
      [] m = "Price" -> PriceView(t)
      [] m = "Search" -> SearchView(t, keyword)

\* the script without st.stop() at line 72: the view runs on None and fails
Script_no_stop(lo, m, selected, keyword) ==
    IF lo.raised THEN LoadRaised
    ELSE IF lo.value.isNone
    THEN Result(None, "raised", {"sidebar", "error.file_missing", "exception"}, EmptyOut)
    ELSE View(m, lo.value, selected, keyword)

\* the whole script, top to bottom, for one interaction: lo is the outcome
\* of df = load_data()
Script(lo, m, selected, keyword) ==
    IF lo.raised THEN LoadRaised
    ELSE IF lo.value.isNone THEN Stopped
    ELSE View(m, lo.value, selected, keyword)

\* (lo and r range over one-element sets: each is computed once per step)
Run(m, selected, keyword) ==
    \E lo \in {LoadCall} :
      \E r \in {Script(lo, m, selected, keyword)} :
        /\ lo.reads <= MaxReads
        /\ menu' = m
        /\ df' = r.df
        /\ status' = r.status
        /\ shown' = r.shown
        /\ out' = r.out
        /\ cache' = [lo.cache EXCEPT !.value = cache_after_run(@, r.df)]
        /\ reads' = lo.reads
        /\ loaded' = IF lo.raised THEN loaded
                     ELSE [calls |-> IF loaded.calls < MaxCalls THEN loaded.calls + 1
                                     ELSE loaded.calls,
                           first |-> IF loaded.calls = 0 THEN lo.value ELSE loaded.first,
                           last |-> lo.value]
        /\ UNCHANGED <<file, font>>

\* the publishers the select box offers (an empty box selects nothing)
Selectable ==
    IF LoadCall.raised \/ LoadCall.value.isNone THEN {NaN}
    ELSE publisher_list(LoadCall.value.rows)

RunHome == Run("Home", NaN, <<>>)
RunSales == Run("Sales", NaN, <<>>)
RunPublisher == \E selected \in Selectable : Run("Publisher", selected, <<>>)
RunPrice == Run("Price", NaN, <<>>)
RunSearch(keyword) == Run("Search", NaN, keyword)

InitRun ==
    /\ cache = NoEntry
    /\ df = None
    /\ menu = "none"
    /\ status = "none"
    /\ shown = {}
    /\ out = EmptyOut
    /\ reads = 0
    /\ loaded = [calls |-> 0, first |-> None, last |-> None]

----------------------------------------------------------------------------
(* The session: reruns of the script while the file on disk may change *)

RawRow(title, subtitle, publisher, price, rating, review, sales, date) ==
    [Title |-> title, Subtitle |-> subtitle, Author |-> <<"k">>,
     Publisher |-> publisher, Price |-> price, Rating |-> rating,
     ReviewCount |-> review, SalesIndex |-> sales, PublishingDate |-> date]

\* '15,000W', '9,000W', '30000' and a price that int() rejects
Price15000 == <<"1", "5", ",", "0", "0", "0", WON>>
Price9000 == <<"9", ",", "0", "0", "0", WON>>
Price30000 == <<"3", "0", "0", "0", "0">>
PriceBad == <<"x", WON>>

\* '2023Y 05M', '2023-05-17', '2024Y 1M' and a text that is no date
DateMay == <<"2", "0", "2", "3", YEAR, " ", "0", "5", MONTH>>
DateIso == <<"2", "0", "2", "3", "-", "0", "5", "-", "1", "7">>
DateJan == <<"2", "0", "2", "4", YEAR, " ", "1", MONTH>>
DateBad == <<"x">>

RowA == RawRow(<<"A", "b">>, <<"a", ".">>, <<"p">>, Price15000, <<"9">>, <<"3">>, <<"5">>, DateMay)
RowB == RawRow(<<"b", "b">>, <<>>, <<"q">>, Price9000, <<>>, <<"x">>, <<>>, DateBad)
RowC == RawRow(<<"b">>, <<"B", "a">>, <<"p">>, Price30000, <<"7">>, <<"1">>, <<"8">>, DateIso)
RowBad == RawRow(<<"a">>, <<>>, <<"q">>, PriceBad, <<"8">>, <<"2">>, <<"4">>, DateJan)
RowNoPublisher == RawRow(<<"a", "b">>, <<>>, <<>>, Price9000, <<"8">>, <<"2">>, <<"4">>, DateJan)

\* the files of the session; each CSV has a header and at least one row
SessionFiles ==
    {Absent, Csv(<<RowA, RowB>>), Csv(<<RowC>>), Csv(<<RowA, RowBad>>),
     Csv(<<RowNoPublisher>>)}

SessionKeywords == {<<>>, <<"a">>, <<"x">>, <<".">>, <<"(">>}

Init ==
    /\ InitRun
    /\ file \in SessionFiles
    /\ font \in BOOLEAN

\* the file is created, replaced or removed between two interactions
ChangeFile ==
    /\ \E f \in SessionFiles \ {file} : file' = f
    /\ UNCHANGED <<cache, df, menu, status, shown, out, reads, loaded, font>>

SessionSearch == \E keyword \in SessionKeywords : RunSearch(keyword)

Next ==
    \/ ChangeFile
    \/ RunHome
    \/ RunSales
    \/ RunPublisher
    \/ RunPrice
    \/ SessionSearch

Spec == Init /\ [][Next]_vars

----------------------------------------------------------------------------
(* Properties of the session *)

\* what a run rendered beyond the sidebar and the messages
ViewElements(elements) == elements \ {"sidebar", "error.file_missing", "exception"}

\* a step that is a run of the script (the file is left as it is)
HaltsOnMissing ==
    /\ loaded'.last.isNone
    /\ status' = "stopped"
    /\ "error.file_missing" \in shown'
    /\ ViewElements(shown') = {}
    /\ out' = EmptyOut

\* C1 as stated: whenever the script runs while the CSV is absent, load_data
\* returns None and the run stops after the file-missing message, with no view
\* element rendered and no exception, whatever the menu selection.
C1_Original ==
    [][(file' = file /\ ~path_exists(file)) => HaltsOnMissing]_vars

\* C1 amended: whenever the script runs while the CSV is absent and the
\* cache holds no table from an earlier run, load_data returns None and the run
\* stops after the file-missing message, with no view element rendered and no
\* exception, whatever the menu selection.
C1_HaltsWhenNothingCached ==
    [][(file' = file /\ ~path_exists(file) /\ ~(cache.hit /\ ~cache.value.isNone))
         => HaltsOnMissing]_vars

C1_Witness ==
    /\ ~path_exists(file)
    /\ status = "stopped"
    /\ menu = "Price"
    /\ loaded.calls >= 2
    /\ loaded.last.isNone

\* C2: the CSV is read at most once in the process, and every later call of
\* load_data returns the value the first call returned.
C2_ReadOnce ==
    /\ reads <= 1
    /\ loaded.calls >= 1 => loaded.last = loaded.first

\* C3: a load of an n-row CSV never raises and gives n rows; a row with a
\* malformed price or date has that field missing and every other field, and
\* every other row, as a clean CSV would give them.
C3_ParseRecovered ==
    [][(file' = file /\ path_exists(file) /\ ~cache.hit) =>
          /\ status' # "raised" \/ "sidebar" \in shown'
          /\ Len(loaded'.last.rows) = Len(file.rows)
          /\ \A i \in 1..Len(file.rows) :
                LET raw == read_csv(file)[i]
                    row == loaded'.last.rows[i]
                IN /\ clean_price_raises(raw.Price) => row.Price = NaN
                   /\ ~clean_price_raises(raw.Price) => row.Price = clean_price(raw.Price)
                   /\ row.PublishingDate = parse_date(raw.PublishingDate)
                   /\ row.Title = raw.Title /\ row.Subtitle = raw.Subtitle
                   /\ row.Publisher = raw.Publisher
                   /\ row.Rating = to_numeric(raw.Rating)
                   /\ row.SalesIndex = sales_index(raw.SalesIndex)]_vars

\* C4: whatever views have run, the Price view included, the table that the
\* next run obtains from load_data is the table of the original load: same
\* columns, no 'Price Range', same values.
C4_NoLeak ==
    (loaded.calls >= 1 /\ ~loaded.last.isNone) =>
        /\ loaded.last = loaded.first
        /\ loaded.last.columns = PreparedColumns
        /\ \A i \in 1..Len(loaded.last.rows) : loaded.last.rows[i].PriceRange = NaN
        /\ cache.value = loaded.first

\* the Price view has just added its column to the table it received from a
\* cache hit
C4_Witness ==
    /\ menu = "Price" /\ status = "ok"
    /\ "Price Range" \in df.columns
    /\ \E i \in 1..Len(df.rows) : df.rows[i].PriceRange # NaN
    /\ loaded.calls >= 2
    /\ cache.hit /\ "Price Range" \notin cache.value.columns

\* C5: in every table load_data returns, a row has a YearMonth exactly when
\* it has a Publishing Date, and the YearMonth is then the 'YYYY-MM' of that
\* date.
C5_YearMonth ==
    \A i \in 1..Len(loaded.last.rows) :
        LET row == loaded.last.rows[i]
        IN /\ (row.YearMonth.t # "nan" /\ row.YearMonth # Str(<<>>))
                <=> row.PublishingDate.t = "date"
           /\ row.PublishingDate.t = "date" =>
                row.YearMonth = Str(Pad(YearOf(row.PublishingDate), 4) \o <<"-">>
                                    \o Pad(MonthOf(row.PublishingDate), 2))

RECURSIVE SumCounts(_)
SumCounts(buckets) ==
    IF buckets = <<>> THEN 0 ELSE Head(buckets).Count + SumCounts(Tail(buckets))

Dated(rows) == {i \in 1..Len(rows) : rows[i].PublishingDate.t = "date"}

BucketsOfDated(buckets, rows) ==
    /\ \A k \in 1..Len(buckets) :
          \E i \in Dated(rows) :
              buckets[k].YearMonth =
                  Str(Pad(YearOf(rows[i].PublishingDate), 4) \o <<"-">>
                      \o Pad(MonthOf(rows[i].PublishingDate), 2))
    /\ SumCounts(buckets) = Cardinality(Dated(rows))

\* C6: the Home monthly counts and the Publisher trend have one bucket per
\* year-month of a parsed date, and their counts add up to the number of rows
\* (of the table, of the selected publisher) that have a Publishing Date.
C6_DatedBuckets ==
    /\ (menu = "Home" /\ status = "ok") => BucketsOfDated(out.monthly_counts, df.rows)
    /\ (menu = "Publisher" /\ status = "ok") => BucketsOfDated(out.pub_trend, out.pub_df)

literal_contains(text, keyword) ==
    \E i \in 1..(Len(text) - Len(keyword) + 1) :
        \A j \in 1..Len(keyword) : Lower(keyword[j]) = Lower(text[i + j - 1])

LiteralFilter(rows, keyword) ==
    Masked(rows, [i \in 1..Len(rows) |->
        \/ literal_contains(rows[i].Title.s, keyword)
        \/ literal_contains(rows[i].Subtitle.s, keyword)])

\* C7: the Search view's filter never fails and keeps exactly the rows, in
\* table order, whose Title or Subtitle (a missing one counting as empty)
\* contains the keyword literally, letter case ignored; all rows for the
\* empty keyword.
C7_LiteralSubstring ==
    (menu = "Search" /\ status \in {"ok", "raised"} /\ "sidebar" \in shown) =>
        /\ "search.info" \in shown
        /\ out.filtered_df = LiteralFilter(df.rows, out.keyword)

\* C8: a Search keyword or a Publisher selection that keeps no row shows a
\* 'no results' message and renders no chart and no table.
C8_NoResults ==
    /\ (menu = "Search" /\ status = "ok" /\ out.filtered_df = <<>>) =>
          ViewElements(shown) = {"search.info", "search.warning.no_results"}
    /\ (menu = "Publisher" /\ "publisher.metrics" \in shown /\ out.pub_df = <<>>) =>
          /\ status = "ok"
          /\ ViewElements(shown) = {"publisher.metrics", "publisher.trend.warning"}

----------------------------------------------------------------------------
(* Missing numbers: tables that vary the Sales Index and the Rating *)

MaxNumericRows == 2

SalesTexts == {<<>>, <<"x">>, <<"5">>}
RatingTexts == {<<>>, <<"x">>, <<"9">>}

\* publisher p sells at 9,000W, publisher q at 30000
NumericRow(publisher, sales, rating) ==
    RawRow(<<"a">>, <<>>, publisher,
           IF publisher = <<"p">> THEN Price9000 ELSE Price30000,
           rating, <<"2">>, sales, DateMay)

NumericRows ==
    {NumericRow(p, s, r) : p \in {<<"p">>, <<"q">>}, s \in SalesTexts, r \in RatingTexts}

RECURSIVE SeqsUpTo(_, _)
SeqsUpTo(S, n) ==
    IF n = 0 THEN {<<>>}
    ELSE SeqsUpTo(S, n - 1)
         \cup {Append(q, x) : q \in {t \in SeqsUpTo(S, n - 1) : Len(t) = n - 1}, x \in S}

NumericFiles == {Csv(rows) : rows \in SeqsUpTo(NumericRows, MaxNumericRows) \ {<<>>}}

InitNumeric ==
    /\ InitRun
    /\ file \in NumericFiles
    /\ font = TRUE

NextNumeric ==
    \/ RunHome
    \/ RunSales
    \/ RunPublisher
    \/ RunPrice

SpecNumeric == InitNumeric /\ [][NextNumeric]_vars

RawValue(text) == IF IntParses(text) THEN DigitsValue(text) ELSE 0

RECURSIVE RawSum(_, _)
RawSum(texts, I) ==
    IF I = {} THEN 0
    ELSE LET i == CHOOSE j \in I : TRUE
         IN RawValue(texts[i]) + RawSum(texts, I \ {i})

RawSales == [i \in 1..Len(file.rows) |-> file.rows[i].SalesIndex]
RawRatings == [i \in 1..Len(file.rows) |-> file.rows[i].Rating]
Rated(I) == {i \in I : IntParses(RawRatings[i])}
RowsOfPublisher(name) == {i \in 1..Len(file.rows) : file.rows[i].Publisher = name}
RowsInRange(label) == {i \in 1..Len(df.rows) : df.rows[i].PriceRange = Str(<<label>>)}

\* C9: a Sales Index that is empty or not a number in the CSV is 0 in the
\* table and counts as 0 in every Sales Index mean (per publisher, per price
\* range, of the selected publisher) and in the ranking, while a Rating that is
\* empty or not a number is missing in the table and is left out of the sum
\* and of the count of every Rating mean.
C9_MissingValues ==
    status = "ok" =>
        /\ \A i \in 1..Len(df.rows) :
              /\ df.rows[i].SalesIndex = Num(RawValue(RawSales[i]))
              /\ df.rows[i].Rating =
                    IF IntParses(RawRatings[i]) THEN Num(RawValue(RawRatings[i])) ELSE NaN
        /\ menu = "Sales" =>
              /\ Len(out.top_sales) = Len(file.rows)
              /\ \A k \in 1..Len(out.top_sales) :
                    /\ \E i \in 1..Len(df.rows) : out.top_sales[k] = df.rows[i]
                    /\ \A l \in k..Len(out.top_sales) :
                          out.top_sales[k].SalesIndex.n >= out.top_sales[l].SalesIndex.n
              /\ {out.avg_sales[k].Publisher.s : k \in 1..Len(out.avg_sales)}
                    = {file.rows[i].Publisher : i \in 1..Len(file.rows)}
              /\ \A k \in 1..Len(out.avg_sales) :
                    LET I == RowsOfPublisher(out.avg_sales[k].Publisher.s)
                    IN out.avg_sales[k].SalesIndex =
                          [sum |-> RawSum(RawSales, I), count |-> Cardinality(I)]
        /\ menu = "Price" =>
              \A k \in 1..Len(out.price_sales) :
                  LET I == RowsInRange(out.price_sales[k].PriceRange)
                  IN out.price_sales[k].SalesIndex =
                        [sum |-> RawSum(RawSales, I), count |-> Cardinality(I)]
        /\ menu = "Home" =>
              out.rating_mean =
                  [sum |-> RawSum(RawRatings, Rated(1..Len(file.rows))),
                   count |-> Cardinality(Rated(1..Len(file.rows)))]
        /\ menu = "Publisher" =>
              LET I == RowsOfPublisher(out.selected_publisher.s)
              IN /\ out.sales_mean = [sum |-> RawSum(RawSales, I), count |-> Cardinality(I)]
                 /\ out.rating_mean =
                       [sum |-> RawSum(RawRatings, Rated(I)), count |-> Cardinality(Rated(I))]

\* the selected publisher has a row without Sales Index and Rating and a row
\* with both: the Sales Index mean is over two rows, the Rating mean over one
C9_Witness ==
    /\ menu = "Publisher" /\ status = "ok"
    /\ Len(out.pub_df) = 2
    /\ \E i, j \in RowsOfPublisher(out.selected_publisher.s) :
          /\ ~IntParses(RawSales[i]) /\ ~IntParses(RawRatings[i])
          /\ IntParses(RawSales[j]) /\ IntParses(RawRatings[j])
    /\ out.sales_mean.count = 2
    /\ out.rating_mean.count = 1

----------------------------------------------------------------------------
(* Ranking: tables longer than the top-20 cut *)

BulkRows == 18
MaxTail == 4

\* row i of a ranking table, named k01, k02, ...
TopRow(i, sales) ==
    RawRow(<<"k">> \o Pad(i, 2), <<>>, <<"p">>, Price9000, <<"9">>, <<"2">>, sales, DateMay)

BulkSales(i) == IF i % 2 = 1 THEN <<"3">> ELSE <<"1">>

TailSales == {<<>>, <<"1">>, <<"3">>}

TopTable(tail) ==
    AsSeq([i \in 1..BulkRows |-> TopRow(i, BulkSales(i))])
    \o AsSeq([i \in 1..Len(tail) |-> TopRow(BulkRows + i, tail[i])])

TopFiles == {Csv(TopTable(tail)) : tail \in SeqsUpTo(TailSales, MaxTail)}

InitTop ==
    /\ InitRun
    /\ file \in TopFiles
    /\ font = TRUE

NextTop == RunSales

SpecTop == InitTop /\ [][NextTop]_vars

Position(rows, r) == CHOOSE i \in 1..Len(rows) : rows[i] = r

Unranked(rows, top) == {i \in 1..Len(rows) : \A k \in 1..Len(top) : top[k] # rows[i]}

====
